---- MODULE Spec2Model ----
(***************************************************************************)
(* Zoho Sprints MCP server: the JSON-RPC dispatcher                        *)
(* (src/src/mcp_streamable_http_server.py), the session state it keeps,    *)
(* and the credential lifecycle of ZohoSprintsService                      *)
(* (src/src/services/zoho_sprints.py).                                     *)
(*                                                                         *)
(* One action is one request handed to process_mcp_request, run to its     *)
(* return; Respond hands the envelope to the transport and the server is   *)
(* idle again.  The handlers are coroutines that never suspend (requests   *)
(* is a blocking client), so one request is handled at a time.  The token  *)
(* endpoint's and the upstream API's answers are the                       *)
(* environment: every handler is modelled as the set of outcomes it can    *)
(* have over all answers it may receive.  Python None, JSON null and an    *)
(* absent key are the string "None" where a string is expected and the     *)
(* empty tuple << >> where a number is expected (<<n>> is the number n).   *)
(***************************************************************************)
EXTENDS Integers, Sequences, FiniteSets, TLC

VARIABLES
    settings,        \* Settings.ZOHO_CLIENT_ID / ZOHO_CLIENT_SECRET, read once at import
    now,             \* datetime.now(), in seconds
    initialized,     \* StreamableHttpMCPServer.initialized
    zoho_service,    \* StreamableHttpMCPServer.zoho_service (NoService is None)
    services,        \* how many ZohoSprintsService objects were constructed so far
    request,         \* the request being answered (NoRequest while the server is idle)
    response,        \* the envelope process_mcp_request returned for it
    events,          \* the outbound HTTP calls made while handling it, in order
    history,         \* what has happened since the process started
    returned         \* what a service method called directly returned (NoCall if none)

vars == <<settings, now, initialized, zoho_service, services, request, response,
          events, history, returned>>

----------------------------------------------------------------------------
(* Bounds of the model. *)

\* The clock runs from 0 to MaxTime.
MaxTime == 1
\* A tools/call batch holds at most MaxBatch entries.
MaxBatch == 2
\* At most MaxServices ZohoSprintsService objects are constructed.
MaxServices == 2

----------------------------------------------------------------------------
(* Program constants. *)

METHOD_NOT_FOUND == -32601
INTERNAL_ERROR == -32603
DEFAULT_EXPIRES_IN == 3600
DEFAULT_PROTOCOL_VERSION == "2024-11-05"

None == "None"
NoInt == << >>
Some(n) == <<n>>

----------------------------------------------------------------------------
(* Settings and the service object. *)

SettingsValues ==
    { [ZOHO_CLIENT_ID |-> "client-id", ZOHO_CLIENT_SECRET |-> "client-secret"],
      [ZOHO_CLIENT_ID |-> "",          ZOHO_CLIENT_SECRET |-> "client-secret"],
      [ZOHO_CLIENT_ID |-> "client-id", ZOHO_CLIENT_SECRET |-> ""] }

\* Settings.validate(): the message of the ValueError it raises, None when it returns.
validate(s) ==
    IF s.ZOHO_CLIENT_ID = "" THEN "ZOHO_CLIENT_ID environment variable is required"
    ELSE IF s.ZOHO_CLIENT_SECRET = "" THEN "ZOHO_CLIENT_SECRET environment variable is required"
    ELSE None

\* self.zoho_service = None
NoService ==
    [id |-> 0, client_id |-> None, client_secret |-> None, access_token |-> None,
     refresh_token |-> None, token_expires_at |-> NoInt]

\* ZohoSprintsService.__init__ once validate() has returned; id tells the objects apart.
NewService(s, n) ==
    [id |-> n, client_id |-> s.ZOHO_CLIENT_ID, client_secret |-> s.ZOHO_CLIENT_SECRET,
     access_token |-> None, refresh_token |-> None, token_expires_at |-> NoInt]

----------------------------------------------------------------------------
(* The token endpoint's answers and authenticate(). *)

\* A decoded JSON object of the token endpoint.  expires_in is absent (NoInt),
\* a number, or present but no number (expires_is_number = FALSE: null, a string).
TokenBody(at, rt, isnum, ei) ==
    [status |-> "ok", body |-> "object", access_token |-> at, refresh_token |-> rt,
     expires_is_number |-> isnum, expires_in |-> ei]

TokenFailure(status, body) ==
    [status |-> status, body |-> body, access_token |-> None, refresh_token |-> None,
     expires_is_number |-> TRUE, expires_in |-> NoInt]

TokenResponses ==
    { TokenFailure("transport_error", "none"),     \* requests.post raises
      TokenFailure("http_error", "none"),          \* raise_for_status raises
      TokenFailure("ok", "undecodable"),           \* response.json() raises
      TokenFailure("ok", "array"),                 \* a JSON value with no .get
      TokenBody("t1", "r1", TRUE, Some(1)),
      TokenBody("t2", None, TRUE, NoInt),
      TokenBody("t2", "r1", TRUE, Some(0)),
      TokenBody(None, None, TRUE, NoInt),          \* {"error": "invalid_client"}, status 200
      TokenBody("t1", "r1", FALSE, NoInt) }        \* "expires_in": null

\* Variant: a response without refresh_token keeps the refresh token held.
authenticate_KeepsRefreshToken(svc, resp, t) ==
    IF resp.status # "ok" \/ resp.body # "object"
    THEN [svc |-> svc, ok |-> FALSE]
    ELSE LET s1 == [svc EXCEPT !.access_token = resp.access_token,
                               !.refresh_token = IF resp.refresh_token = None
                                                 THEN svc.refresh_token
                                                 ELSE resp.refresh_token]
             expires_in == IF resp.expires_in = NoInt THEN DEFAULT_EXPIRES_IN
                           ELSE resp.expires_in[1]
         IN  IF ~resp.expires_is_number
             THEN [svc |-> s1, ok |-> FALSE]
             ELSE [svc |-> [s1 EXCEPT !.token_expires_at = Some(t + expires_in)],
                   ok |-> TRUE]

\* authenticate(): the service after the call and the boolean it returns.  The
\* assignments of lines 56, 57 and 61 take effect in that order, each one only if
\* no exception was raised before it.
authenticate(svc, resp, t) ==
    IF resp.status # "ok" \/ resp.body # "object"
    THEN [svc |-> svc, ok |-> FALSE]
    ELSE LET s1 == [svc EXCEPT !.access_token = resp.access_token,
                               !.refresh_token = resp.refresh_token]
             expires_in == IF resp.expires_in = NoInt THEN DEFAULT_EXPIRES_IN
                           ELSE resp.expires_in[1]
         IN  IF ~resp.expires_is_number
             THEN [svc |-> s1, ok |-> FALSE]
             ELSE [svc |-> [s1 EXCEPT !.token_expires_at = Some(t + expires_in)],
                   ok |-> TRUE]

\* Variant: the token is still good at the instant of its expiry.
_is_token_expired_Strict(svc, t) ==
    IF svc.token_expires_at = NoInt THEN TRUE ELSE t > svc.token_expires_at[1]

\* _is_token_expired()
_is_token_expired(svc, t) ==
    IF svc.token_expires_at = NoInt THEN TRUE ELSE t >= svc.token_expires_at[1]

----------------------------------------------------------------------------
(* JSON values of the upstream API, abstracted to what the code looks at: the   *)
(* type, len(), and the length of the list under the collection key ("items",   *)
(* "epics") of an object, -1 when the object has no such key.                   *)

Json(type, size, member) == [type |-> type, size |-> size, member |-> member]
JNull == Json("null", 0, -1)
JEmptyList == Json("array", 0, -1)

\* bool(v) of Python
Truthy(v) == v.type # "null" /\ v.size > 0

UpstreamOk(v) == [status |-> "ok", json |-> v]
UpstreamResponses ==
    { [status |-> "transport_error", json |-> JNull],          \* requests.get raises
      [status |-> "http_error", json |-> JNull],               \* raise_for_status raises
      [status |-> "ok", json |-> Json("undecodable", 0, -1)],  \* response.json() raises
      UpstreamOk(JNull),
      UpstreamOk(JEmptyList),
      UpstreamOk(Json("array", 1, -1)),
      UpstreamOk(Json("object", 1, -1)),
      UpstreamOk(Json("object", 1, 1)) }

----------------------------------------------------------------------------
(* The read operations of ZohoSprintsService.  Each is                          *)
(*   try: if not await self._ensure_authenticated(): return <unauth>            *)
(*        response = requests.get(url, headers=self._get_headers())             *)
(*        response.raise_for_status(); return <decode>(response.json())         *)
(*   except Exception: return <failed>                                          *)
(* arity is the number of positional arguments the method accepts after self.   *)

ServiceOps ==
    [ get_projects |-> [arity |-> {0}, unauth |-> JEmptyList, failed |-> JEmptyList, member |-> FALSE],
      get_project  |-> [arity |-> {1}, unauth |-> JNull,      failed |-> JNull,      member |-> FALSE],
      get_sprints  |-> [arity |-> {1}, unauth |-> JEmptyList, failed |-> JNull,      member |-> FALSE],
      get_sprint   |-> [arity |-> {2}, unauth |-> JNull,      failed |-> JNull,      member |-> FALSE],
      get_items    |-> [arity |-> {1, 2}, unauth |-> JEmptyList, failed |-> JEmptyList, member |-> TRUE],
      get_item     |-> [arity |-> {2}, unauth |-> JNull,      failed |-> JNull,      member |-> FALSE],
      get_epics    |-> [arity |-> {1}, unauth |-> JEmptyList, failed |-> JEmptyList, member |-> TRUE],
      get_epic     |-> [arity |-> {2}, unauth |-> JNull,      failed |-> JNull,      member |-> FALSE] ]

\* An outbound call: authenticate()'s POST to the token endpoint (ok is what
\* authenticate() returned) or a GET of a resource with the token it carried (ok
\* is whether a JSON value was received; truthy is bool() of that value).  call is
\* the position of the tool call that made it, 0 for handle_initialize.
AuthEvent(call, op, ok) ==
    [kind |-> "authenticate", call |-> call, op |-> op, token |-> None, ok |-> ok,
     truthy |-> FALSE]
GetEvent(call, op, token, u) ==
    [kind |-> "get", call |-> call, op |-> op, token |-> token,
     ok |-> (u.status = "ok" /\ u.json.type # "undecodable"),
     truthy |-> (u.status = "ok" /\ Truthy(u.json))]

\* Variant: authenticate() is called whether or not the token has expired.
_ensure_authenticated_Always(svc, t, call, op) ==
    { LET a == authenticate(svc, r, t)
      IN  [svc |-> a.svc, ok |-> a.ok, events |-> <<AuthEvent(call, op, a.ok)>>]
      : r \in TokenResponses }

\* _ensure_authenticated(): the set of [svc, ok, events] it can end in.
_ensure_authenticated(svc, t, call, op) ==
    IF _is_token_expired(svc, t)
    THEN { LET a == authenticate(svc, r, t)
           IN  [svc |-> a.svc, ok |-> a.ok, events |-> <<AuthEvent(call, op, a.ok)>>]
           : r \in TokenResponses }
    ELSE { [svc |-> svc, ok |-> TRUE, events |-> << >>] }

\* Variant: the headers are built from whatever access_token holds.
_get_headers_Unchecked(svc) ==
    [raised |-> FALSE, Authorization |-> "Zoho-oauthtoken " \o svc.access_token]

\* _get_headers(): raises ValueError("Not authenticated. Call authenticate()
\* first.") when access_token is None, else the headers of the GET.
_get_headers(svc) ==
    IF svc.access_token = None
    THEN [raised |-> TRUE, Authorization |-> None]
    ELSE [raised |-> FALSE, Authorization |-> "Zoho-oauthtoken " \o svc.access_token]

\* What the operation returns for an upstream answer once the GET was sent.
DecodeUpstream(op, u) ==
    IF u.status # "ok" \/ u.json.type = "undecodable" THEN ServiceOps[op].failed
    ELSE IF ~ServiceOps[op].member THEN u.json
    ELSE IF u.json.type # "object" THEN ServiceOps[op].failed   \* no .get on a list or None
    ELSE IF u.json.member < 0 THEN JEmptyList
    ELSE Json("array", u.json.member, -1)

\* One read operation: the set of [svc, value, events] it can end in.
ServiceRead(svc, op, t, call) ==
    UNION { IF ~e.ok
            THEN { [svc |-> e.svc, value |-> ServiceOps[op].unauth, events |-> e.events] }
            ELSE IF _get_headers(e.svc).raised
            THEN { [svc |-> e.svc, value |-> ServiceOps[op].failed, events |-> e.events] }
            ELSE { [svc |-> e.svc, value |-> DecodeUpstream(op, u),
                    events |-> e.events \o
                               <<GetEvent(call, op, e.svc.access_token, u)>>]
                   : u \in UpstreamResponses }
            : e \in _ensure_authenticated(svc, t, call, op) }

----------------------------------------------------------------------------
(* The tool catalog of handle_tools_list and the executor _execute_zoho_tool.   *)

ToolNames ==
    << "get_projects", "get_project", "get_sprints", "get_sprint",
       "get_items", "get_item", "get_epics", "get_epic" >>

\* inputSchema.required of each descriptor, in catalog order
ToolRequired ==
    << << >>, <<"project_id">>, <<"project_id">>, <<"project_id", "sprint_id">>,
       <<"project_id", "sprint_id_or_backlog_id">>,
       <<"project_id", "sprint_id_or_backlog_id", "item_id">>,
       <<"project_id">>, <<"project_id", "epic_id">> >>

\* tools = [...] of handle_tools_list
ToolCatalog == [i \in 1..Len(ToolNames) |-> [name |-> ToolNames[i], required |-> ToolRequired[i]]]

\* The branches of _execute_zoho_tool: the arguments each reads and passes on, in
\* order, the message when one of them is falsy, the service method it calls, the
\* key of its payload, whether it adds a count, and the message for a falsy value.
ToolRules ==
    [ get_projects |-> [args |-> << >>, missing |-> None, key |-> "projects",
                        collection |-> TRUE, notfound |-> None],
      get_project  |-> [args |-> <<"project_id">>, missing |-> "project_id is required",
                        key |-> "project", collection |-> FALSE,
                        notfound |-> "Project not found"],
      get_sprints  |-> [args |-> <<"project_id">>, missing |-> "project_id is required",
                        key |-> "sprints", collection |-> TRUE, notfound |-> None],
      get_sprint   |-> [args |-> <<"project_id", "sprint_id">>,
                        missing |-> "project_id and sprint_id are required",
                        key |-> "sprint", collection |-> FALSE,
                        notfound |-> "Sprint not found"],
      get_items    |-> [args |-> <<"project_id", "sprint_id_or_backlog_id">>,
                        missing |-> "project_id and sprint_id_or_backlog_id are required",
                        key |-> "items", collection |-> TRUE, notfound |-> None],
      get_item     |-> [args |-> <<"project_id", "sprint_id_or_backlog_id", "item_id">>,
                        missing |-> "project_id, sprint_id_or_backlog_id, and item_id are required",
                        key |-> "item", collection |-> FALSE,
                        notfound |-> "Item not found"],
      get_epics    |-> [args |-> <<"project_id">>, missing |-> "project_id is required",
                        key |-> "epics", collection |-> TRUE, notfound |-> None],
      get_epic     |-> [args |-> <<"project_id", "epic_id">>,
                        missing |-> "project_id and epic_id are required",
                        key |-> "epic", collection |-> FALSE,
                        notfound |-> "Epic not found"] ]

Range(seq) == { seq[i] : i \in DOMAIN seq }

\* The dict _execute_zoho_tool returns: {"error": message} or {key: value[, "count": n]}
\* (count is -1 when the dict has no count).
ToolError(message) ==
    [error |-> TRUE, message |-> message, key |-> None, value |-> JNull, count |-> -1]
ToolPayload(key, value, count) ==
    [error |-> FALSE, message |-> None, key |-> key, value |-> value, count |-> count]

\* The return statement after the service call: len(value) for a collection,
\* `{key: value} if value else {"error": ...}` otherwise.
WrapValue(rule, value) ==
    IF rule.collection
    THEN IF value.type = "null"
         THEN ToolError("object of type 'NoneType' has no len()")
         ELSE ToolPayload(rule.key, value, value.size)
    ELSE IF Truthy(value) THEN ToolPayload(rule.key, value, -1)
         ELSE ToolError(rule.notfound)

\* Variant: the name is left out of the message.
UnknownTool_Unnamed(tool_name) == ToolError("Unknown tool")

\* The else branch: {"error": f"Unknown tool: {tool_name}"}; a missing name is
\* None and reads "None".
UnknownTool(tool_name) == ToolError("Unknown tool: " \o tool_name)

\* Variant: only the first argument a branch reads is checked.
MissingArgument_FirstOnly(rule, tool_args) ==
    rule.args # << >> /\ rule.args[1] \notin tool_args.truthy

\* `if not project_id or not sprint_id ...` of a branch: one of the arguments it
\* reads with tool_args.get is falsy.
MissingArgument(rule, tool_args) == ~(Range(rule.args) \subseteq tool_args.truthy)

\* _execute_zoho_tool(tool_name, tool_args): the set of [svc, result, events] it
\* can end in.  tool_args is [mapping, truthy]: whether it is a dict, and the
\* keys it holds with a truthy value.
_execute_zoho_tool(svc, tool_name, tool_args, t, call) ==
    IF tool_name \notin DOMAIN ToolRules
    THEN { [svc |-> svc, result |-> UnknownTool(tool_name), events |-> << >>] }
    ELSE LET rule == ToolRules[tool_name]
             fixed(result) == { [svc |-> svc, result |-> result, events |-> << >>] }
         IN  IF rule.args # << >> /\ ~tool_args.mapping
             THEN fixed(ToolError("'NoneType' object has no attribute 'get'"))
             ELSE IF MissingArgument(rule, tool_args)
             THEN fixed(ToolError(rule.missing))
             ELSE IF Len(rule.args) \notin ServiceOps[tool_name].arity
             THEN fixed(ToolError(tool_name \o
                                  "() takes 3 positional arguments but 4 were given"))
             ELSE { [svc |-> x.svc, result |-> WrapValue(rule, x.value),
                     events |-> x.events]
                    : x \in ServiceRead(svc, tool_name, t, call) }

----------------------------------------------------------------------------
(* Requests and response envelopes.                                             *)

NoId == NoInt

\* A value under a batch key of the tools/call params: the key is absent, or holds
\* null, a number, or a list of entries.
Absent == [kind |-> "absent", items |-> << >>]
BatchList(items) == [kind |-> "list", items |-> items]
NotAList(kind) == [kind |-> kind, items |-> << >>]

\* The "arguments" of a call: a dict with these keys truthy, or no dict at all.
Args(truthy) == [mapping |-> TRUE, truthy |-> truthy]
NoArgsDict == [mapping |-> FALSE, truthy |-> {}]

\* An entry of a batch: a dict (name is None when it has no "name"), or no dict.
Call(name, arguments) == [mapping |-> TRUE, name |-> name, arguments |-> arguments]
NotACall == [mapping |-> FALSE, name |-> None, arguments |-> Args({})]

\* request.params or {}
Params(version, toolCalls, calls, tool_calls, has_name, name, has_arguments, arguments) ==
    [protocolVersion |-> version, toolCalls |-> toolCalls, calls |-> calls,
     tool_calls |-> tool_calls, has_name |-> has_name, name |-> name,
     has_arguments |-> has_arguments, arguments |-> arguments]
EmptyParams == Params(None, Absent, Absent, Absent, FALSE, None, FALSE, Args({}))

MCPRequest(method, id, params) == [method |-> method, id |-> id, params |-> params]

NoError == [code |-> 0, message |-> None, data |-> None]
NoResult ==
    [kind |-> "none", protocolVersion |-> None, tools |-> << >>, name |-> None,
     content |-> << >>, calls |-> << >>]

\* The dicts process_mcp_request returns; keys is the set of keys the dict has.
ErrorEnvelope(id, code, message, data) ==
    [keys |-> {"jsonrpc", "id", "error"}, jsonrpc |-> "2.0", id |-> id,
     result |-> NoResult, error |-> [code |-> code, message |-> message, data |-> data]]
ResultEnvelope(id, result) ==
    [keys |-> {"jsonrpc", "id", "result"}, jsonrpc |-> "2.0", id |-> id,
     result |-> result, error |-> NoError]
BareEnvelope(id) ==
    [keys |-> {"jsonrpc", "id"}, jsonrpc |-> "2.0", id |-> id,
     result |-> NoResult, error |-> NoError]

\* What a handler ends in: the server's fields, the envelope, the outbound calls,
\* and whether authenticate() returned True inside handle_initialize.
Outcome(init, svc, constructed, resp, evs, auth_ok) ==
    [initialized |-> init, zoho_service |-> svc, constructed |-> constructed,
     response |-> resp, events |-> evs, init_auth_ok |-> auth_ok]

----------------------------------------------------------------------------
(* handle_initialize *)

\* Variant: the server always answers with its own version.
client_protocol_version_Fixed(params) == DEFAULT_PROTOCOL_VERSION

\* params.get("protocolVersion", "2024-11-05"); None is the absent key.
client_protocol_version(params) ==
    IF params.protocolVersion = None THEN DEFAULT_PROTOCOL_VERSION
    ELSE params.protocolVersion

InitializeResult(version) ==
    [NoResult EXCEPT !.kind = "initialize", !.protocolVersion = version]

\* Variants of the except clause: one that has already set self.initialized, one
\* that lets the exception reach the dispatcher, one that resets the session.
InitializeFailed_MarksInitialized(init, svc, constructed, request_id, data, evs) ==
    Outcome(TRUE, svc, constructed,
            ErrorEnvelope(request_id, INTERNAL_ERROR, "Initialization failed", data),
            evs, FALSE)
InitializeFailed_AsInternalError(init, svc, constructed, request_id, data, evs) ==
    Outcome(init, svc, constructed,
            ErrorEnvelope(request_id, INTERNAL_ERROR, "Internal error", data),
            evs, FALSE)
InitializeFailed_Resets(init, svc, constructed, request_id, data, evs) ==
    Outcome(FALSE, svc, constructed,
            ErrorEnvelope(request_id, INTERNAL_ERROR, "Initialization failed", data),
            evs, FALSE)

\* The except clause of handle_initialize: self.initialized is left as it was,
\* self.zoho_service is whatever it was assigned before the exception.
InitializeFailed(init, svc, constructed, request_id, data, evs) ==
    Outcome(init, svc, constructed,
            ErrorEnvelope(request_id, INTERNAL_ERROR, "Initialization failed", data),
            evs, FALSE)

handle_initialize(init, svc, params, request_id, t, cfg, n) ==
    IF validate(cfg) # None
    THEN \* ZohoSprintsService() raises before self.zoho_service is assigned
         { InitializeFailed(init, svc, FALSE, request_id, validate(cfg), << >>) }
    ELSE { LET a == authenticate(NewService(cfg, n), r, t)
               ev == <<AuthEvent(0, "initialize", a.ok)>>
           IN  IF ~a.ok
               THEN InitializeFailed(init, a.svc, TRUE, request_id,
                                     "Failed to authenticate with Zoho Sprints API", ev)
               ELSE Outcome(TRUE, a.svc, TRUE,
                            ResultEnvelope(request_id,
                                InitializeResult(client_protocol_version(params))),
                            ev, TRUE)
           : r \in TokenResponses }

----------------------------------------------------------------------------
(* handle_tools_list *)

\* Variant: the catalog is served only once the session is initialized.
handle_tools_list_Gated(init, svc, params, request_id) ==
    { Outcome(init, svc, FALSE,
              IF init
              THEN ResultEnvelope(request_id, [NoResult EXCEPT !.kind = "tools",
                                                               !.tools = ToolCatalog])
              ELSE ErrorEnvelope(request_id, INTERNAL_ERROR, "Server not initialized",
                                 "Call initialize() first"),
              << >>, FALSE) }

handle_tools_list(init, svc, params, request_id) ==
    { Outcome(init, svc, FALSE,
              ResultEnvelope(request_id, [NoResult EXCEPT !.kind = "tools",
                                                          !.tools = ToolCatalog]),
              << >>, FALSE) }

----------------------------------------------------------------------------
(* handle_tools_call *)

\* An exception leaving a handler, as the handler's "response"; process_mcp_request
\* turns it into an envelope.
Raised(message) ==
    [keys |-> {}, jsonrpc |-> None, id |-> NoId, result |-> NoResult,
     error |-> [code |-> 0, message |-> "raised", data |-> message]]

\* Variant: the key calls is looked up before toolCalls.
ExtractToolCalls_CallsFirst(params) ==
    IF params.calls.kind # "absent" THEN params.calls
    ELSE IF params.toolCalls.kind # "absent" THEN params.toolCalls
    ELSE IF params.tool_calls.kind # "absent" THEN params.tool_calls
    ELSE BatchList(<< >>)

\* params.get("toolCalls", params.get("calls", params.get("tool_calls", [])))
ExtractToolCalls(params) ==
    IF params.toolCalls.kind # "absent" THEN params.toolCalls
    ELSE IF params.calls.kind # "absent" THEN params.calls
    ELSE IF params.tool_calls.kind # "absent" THEN params.tool_calls
    ELSE BatchList(<< >>)

\* `not tool_calls`: None and the empty list are falsy, the number (non-zero) is not
Falsy(batch) == batch.kind = "null" \/ (batch.kind = "list" /\ batch.items = << >>)

\* Variant: params itself is never taken as a call.
SelectToolCalls_NoImplicit(params) == ExtractToolCalls(params)

\* tool_calls after `if not tool_calls and "name" in params: tool_calls = [params]`
SelectToolCalls(params) ==
    IF Falsy(ExtractToolCalls(params)) /\ params.has_name
    THEN BatchList(<<Call(params.name, IF params.has_arguments THEN params.arguments
                                       ELSE Args({}))>>)
    ELSE ExtractToolCalls(params)

\* The text of a content entry: f"Error: {message}" or json.dumps(result).
ErrorText(message) == [starts |-> "Error: ", of |-> ToolError(message)]
JsonText(result) == [starts |-> "{", of |-> result]

\* What the loop body appends to results for the dict the executor returned.
ToolResult(tool_name, result) ==
    [name |-> tool_name,
     content |-> << [type |-> "text",
                     text |-> IF ~result.error THEN JsonText(result)
                              ELSE ErrorText(result.message)] >>]

\* Variant: the entries are all looked at before the first of them is executed.
RECURSIVE RunToolCalls_ChecksFirst(_, _, _, _)
RunToolCalls_ChecksFirst(svc, items, i, t) ==
    IF i > Len(items)
    THEN { [svc |-> svc, results |-> << >>, events |-> << >>, raised |-> None] }
    ELSE IF \E j \in i..Len(items) : ~items[j].mapping
    THEN { [svc |-> svc, results |-> << >>, events |-> << >>,
            raised |-> "'str' object has no attribute 'get'"] }
    ELSE UNION { { [svc |-> rest.svc,
                    results |-> <<ToolResult(items[i].name, x.result)>> \o rest.results,
                    events |-> x.events \o rest.events,
                    raised |-> rest.raised]
                   : rest \in RunToolCalls_ChecksFirst(x.svc, items, i + 1, t) }
                 : x \in _execute_zoho_tool(svc, items[i].name, items[i].arguments, t, i) }

\* Variant: the loop stops at the first entry whose result is an error.
RECURSIVE RunToolCalls_StopsAtError(_, _, _, _)
RunToolCalls_StopsAtError(svc, items, i, t) ==
    IF i > Len(items)
    THEN { [svc |-> svc, results |-> << >>, events |-> << >>, raised |-> None] }
    ELSE IF ~items[i].mapping
    THEN { [svc |-> svc, results |-> << >>, events |-> << >>,
            raised |-> "'str' object has no attribute 'get'"] }
    ELSE UNION { IF x.result.error
                 THEN { [svc |-> x.svc,
                         results |-> <<ToolResult(items[i].name, x.result)>>,
                         events |-> x.events, raised |-> None] }
                 ELSE { [svc |-> rest.svc,
                         results |-> <<ToolResult(items[i].name, x.result)>>
                                     \o rest.results,
                         events |-> x.events \o rest.events,
                         raised |-> rest.raised]
                        : rest \in RunToolCalls_StopsAtError(x.svc, items, i + 1, t) }
                 : x \in _execute_zoho_tool(svc, items[i].name, items[i].arguments, t, i) }

\* The loop over tool_calls from entry i on: the set of [svc, results, events,
\* raised] it can end in.  An entry that is no dict raises at tool_call.get,
\* outside the loop's try, after the entries before it were executed.
RECURSIVE RunToolCalls(_, _, _, _)
RunToolCalls(svc, items, i, t) ==
    IF i > Len(items)
    THEN { [svc |-> svc, results |-> << >>, events |-> << >>, raised |-> None] }
    ELSE IF ~items[i].mapping
    THEN { [svc |-> svc, results |-> << >>, events |-> << >>,
            raised |-> "'str' object has no attribute 'get'"] }
    ELSE UNION { { [svc |-> rest.svc,
                    results |-> <<ToolResult(items[i].name, x.result)>> \o rest.results,
                    events |-> x.events \o rest.events,
                    raised |-> rest.raised]
                   : rest \in RunToolCalls(x.svc, items, i + 1, t) }
                 : x \in _execute_zoho_tool(svc, items[i].name, items[i].arguments, t, i) }

\* Variant: the first result is flattened whenever there is one.
CallsResult_FlattensFirst(results) ==
    IF Len(results) >= 1
    THEN [NoResult EXCEPT !.kind = "single", !.name = results[1].name,
                          !.content = results[1].content]
    ELSE [NoResult EXCEPT !.kind = "calls", !.calls = results]

\* The return statement of handle_tools_call
CallsResult(results) ==
    IF Len(results) = 1
    THEN [NoResult EXCEPT !.kind = "single", !.name = results[1].name,
                          !.content = results[1].content]
    ELSE [NoResult EXCEPT !.kind = "calls", !.calls = results]

\* Variant: only the service handle is looked at.
NotReady_OnlyService(init, svc) == svc = NoService

\* `not self.initialized or not self.zoho_service`
NotReady(init, svc) == ~init \/ svc = NoService

handle_tools_call(init, svc, params, request_id, t) ==
    IF NotReady(init, svc)
    THEN { Outcome(init, svc, FALSE,
                   ErrorEnvelope(request_id, INTERNAL_ERROR, "Server not initialized",
                                 "Call initialize() first"),
                   << >>, FALSE) }
    ELSE LET tool_calls == SelectToolCalls(params)
         IN  IF tool_calls.kind # "list"
             THEN { Outcome(init, svc, FALSE, Raised("object is not iterable"),
                            << >>, FALSE) }
             ELSE { Outcome(init, run.svc, FALSE,
                            IF run.raised # None THEN Raised(run.raised)
                            ELSE ResultEnvelope(request_id, CallsResult(run.results)),
                            run.events, FALSE)
                    : run \in RunToolCalls(svc, tool_calls.items, 1, t) }

----------------------------------------------------------------------------
(* process_mcp_request *)

\* Variant: there is no except clause; the exception leaves process_mcp_request.
CatchAll_Reraises(o, request_id) == o

\* Variant: the envelope of the except clause carries no id.
CatchAll_DropsId(o, request_id) ==
    IF o.response.keys # {} THEN o
    ELSE [o EXCEPT !.response = ErrorEnvelope(NoId, INTERNAL_ERROR, "Internal error",
                                              o.response.error.data)]

\* The except clause of process_mcp_request
CatchAll(o, request_id) ==
    IF o.response.keys # {} THEN o
    ELSE [o EXCEPT !.response = ErrorEnvelope(request_id, INTERNAL_ERROR, "Internal error",
                                              o.response.error.data)]

\* Variant: method names are matched without regard to case.
Route_IgnoresCase(method) ==
    IF method \in {"initialize", "notifications/initialized", "tools/list", "tools/call"}
    THEN method
    ELSE IF method = "tools/Call" THEN "tools/call" ELSE "else"

\* The branch of the if/elif chain a method name takes ("else" for the last one).
Route(method) ==
    IF method \in {"initialize", "notifications/initialized", "tools/list", "tools/call"}
    THEN method ELSE "else"

\* Variant: the notification completes the handshake.
handle_notification_Initializes(init, svc, request_id) ==
    { Outcome(TRUE, svc, FALSE, BareEnvelope(request_id), << >>, FALSE) }

\* The notifications/initialized branch: a log line and a bare envelope.
handle_notification(init, svc, request_id) ==
    { Outcome(init, svc, FALSE, BareEnvelope(request_id), << >>, FALSE) }

process_mcp_request(init, svc, req, t, cfg, n) ==
    LET method == req.method
        params == req.params
        request_id == req.id
    IN  IF Route(method) = "initialize"
        THEN { CatchAll(o, request_id)
               : o \in handle_initialize(init, svc, params, request_id, t, cfg, n) }
        ELSE IF Route(method) = "notifications/initialized"
        THEN { CatchAll(o, request_id) : o \in handle_notification(init, svc, request_id) }
        ELSE IF Route(method) = "tools/list"
        THEN { CatchAll(o, request_id)
               : o \in handle_tools_list(init, svc, params, request_id) }
        ELSE IF Route(method) = "tools/call"
        THEN { CatchAll(o, request_id)
               : o \in handle_tools_call(init, svc, params, request_id, t) }
        ELSE { Outcome(init, svc, FALSE,
                       ErrorEnvelope(request_id, METHOD_NOT_FOUND, "Method not found",
                                     "Unknown method: " \o method),
                       << >>, FALSE) }

----------------------------------------------------------------------------
(* The requests the clients send. *)

RequestIds == { NoId, Some(7) }
ProtocolVersions == { None, "2024-11-05", "2025-03-26" }
UnknownMethods == { "invalid_method", "", "tools/Call" }

\* For a catalog tool: all the arguments its branch reads, and all but one.
ArgumentSets(name) ==
    LET all == Range(ToolRules[name].args)
    IN  {all} \cup { all \ {a} : a \in all }

CatalogCalls ==
    UNION { { Call(name, Args(A)) : A \in ArgumentSets(name) } : name \in Range(ToolNames) }

\* A tool that is not in the catalog, and a catalog tool with "arguments": null.
OtherCalls == { Call("get_users", Args({"project_id"})), Call("get_project", NoArgsDict) }

\* The entries batches are built from.
BatchEntries ==
    { Call("get_projects", Args({})), Call("get_project", Args({})),
      Call(None, Args({})), NotACall }

Batches == UNION { [1..k -> BatchEntries] : k \in 0..MaxBatch }

BatchParams(toolCalls, calls, tool_calls) ==
    Params(None, toolCalls, calls, tool_calls, FALSE, None, FALSE, Args({}))

ToolsCallParams ==
    \* one implicit call: {"name": ..., "arguments": ...}
    { Params(None, Absent, Absent, Absent, TRUE, c.name, TRUE, c.arguments)
      : c \in CatalogCalls \cup OtherCalls }
    \cup
    \* {"name": ...} alone, and {} alone
    { Params(None, Absent, Absent, Absent, TRUE, "get_projects", FALSE, Args({})),
      EmptyParams }
    \cup
    \* a batch under one of the three keys
    { BatchParams(BatchList(b), Absent, Absent) : b \in Batches }
    \cup
    { BatchParams(Absent, BatchList(<<c>>), Absent) : c \in CatalogCalls }
    \cup
    { BatchParams(Absent, Absent, BatchList(<<c>>)) : c \in BatchEntries }
    \cup
    \* several keys at once, and values that are no list
    { BatchParams(BatchList(<< >>), BatchList(<<Call("get_projects", Args({}))>>), Absent),
      BatchParams(Absent, BatchList(<<Call("get_project", Args({}))>>),
                  BatchList(<<Call("get_projects", Args({}))>>)),
      BatchParams(NotAList("null"), Absent, Absent),
      BatchParams(Absent, NotAList("number"), Absent),
      Params(None, BatchList(<< >>), BatchList(<<Call("get_projects", Args({}))>>), Absent,
             TRUE, "get_project", TRUE, Args({})),
      Params(None, NotAList("null"), Absent, Absent, TRUE, "get_project", TRUE,
             Args({"project_id"})),
      Params(None, BatchList(<<Call("get_projects", Args({}))>>), Absent, Absent,
             TRUE, "get_project", TRUE, Args({})) }

----------------------------------------------------------------------------
(* The state machine. *)

NoRequest == MCPRequest("none", NoId, EmptyParams)
NoResponse ==
    [keys |-> {}, jsonrpc |-> None, id |-> NoId, result |-> NoResult, error |-> NoError]
\* A return of a service method: its name, the boolean (authenticate,
\* _ensure_authenticated) and the value (read operations) it returned.
Returned(op, ok, value) == [op |-> op, ok |-> ok, value |-> value]
NoCall == Returned(None, FALSE, JNull)

Init ==
    /\ settings \in SettingsValues
    /\ now = 0
    /\ initialized = FALSE
    /\ zoho_service = NoService
    /\ services = 0
    /\ request = NoRequest
    /\ response = NoResponse
    /\ events = << >>
    /\ history = [init_auth_ok |-> FALSE, init_failed |-> FALSE, secret_logged |-> FALSE,
                  internal_error |-> FALSE]
    /\ returned = NoCall

\* One request through process_mcp_request, from the call to the return.
Handle(req) ==
    /\ \E o \in process_mcp_request(initialized, zoho_service, req, now, settings, services + 1) :
           /\ initialized' = o.initialized
           /\ zoho_service' = o.zoho_service
           /\ services' = IF o.constructed THEN services + 1 ELSE services
           /\ request' = req
           /\ response' = o.response
           /\ events' = o.events
           /\ history' =
                [init_auth_ok |-> history.init_auth_ok \/ o.init_auth_ok,
                 init_failed |-> history.init_failed
                                 \/ (req.method = "initialize" /\ ~o.init_auth_ok),
                 \* line 143 logs settings.ZOHO_CLIENT_SECRET once authenticate() succeeded
                 secret_logged |-> history.secret_logged \/ o.init_auth_ok,
                 \* the except clause of process_mcp_request has run
                 internal_error |-> history.internal_error
                                    \/ o.response.error.message = "Internal error"]
           /\ UNCHANGED <<settings, now, returned>>

Initialize ==
    /\ request = NoRequest
    /\ validate(settings) = None => services < MaxServices
    /\ \E id \in RequestIds, v \in ProtocolVersions :
          Handle(MCPRequest("initialize", id, [EmptyParams EXCEPT !.protocolVersion = v]))

NotificationsInitialized ==
    /\ request = NoRequest
    /\ \E id \in RequestIds : Handle(MCPRequest("notifications/initialized", id, EmptyParams))

ToolsList ==
    /\ request = NoRequest
    /\ \E id \in RequestIds : Handle(MCPRequest("tools/list", id, EmptyParams))

ToolsCall ==
    /\ request = NoRequest
    /\ \E id \in RequestIds, p \in ToolsCallParams : Handle(MCPRequest("tools/call", id, p))

UnknownMethod ==
    /\ request = NoRequest
    /\ \E id \in RequestIds, m \in UnknownMethods : Handle(MCPRequest(m, id, EmptyParams))

\* handle_mcp_request returns the envelope to the transport.
Respond ==
    /\ request # NoRequest
    /\ request' = NoRequest
    /\ response' = NoResponse
    /\ events' = << >>
    /\ UNCHANGED <<settings, now, initialized, zoho_service, services, history, returned>>

\* Time passes between requests.
Tick ==
    /\ request = NoRequest
    /\ now < MaxTime
    /\ now' = now + 1
    /\ UNCHANGED <<settings, initialized, zoho_service, services, request, response,
                   events, history, returned>>

Next ==
    \/ Initialize
    \/ NotificationsInitialized
    \/ ToolsList
    \/ ToolsCall
    \/ UnknownMethod
    \/ Respond
    \/ Tick

Spec == Init /\ [][Next]_vars

----------------------------------------------------------------------------
(* Properties.  A step that handles a request starts idle and ends with request', *)
(* response' and events' describing it; the unprimed variables are the state the  *)
(* request was processed in.                                                      *)

Answered == request # NoRequest
HasResult(env) == "result" \in env.keys
HasError(env) == "error" \in env.keys

\* C1: a tools/call processed while initialized is false gets an error envelope
\* with code -32603 and the message "Server not initialized"; no call of the
\* request is executed, no authenticate() and no upstream GET is made, and the
\* session and the service are left as they were.
C1_CallBeforeInitializeRejected ==
    [][ (request'.method = "tools/call" /\ ~initialized) =>
            /\ response'.keys = {"jsonrpc", "id", "error"}
            /\ response'.error.code = -32603
            /\ response'.error.message = "Server not initialized"
            /\ response'.result = NoResult
            /\ events' = << >>
            /\ zoho_service' = zoho_service
            /\ ~initialized' ]_vars

\* A tools/call was rejected after a failed initialize had left a service object.
C1_Witness ==
    /\ request.method = "tools/call"
    /\ ~initialized
    /\ history.init_failed
    /\ zoho_service # NoService
    /\ response.error.message = "Server not initialized"

\* C2: a method name other than the four known ones gets an error envelope with
\* code -32601 "Method not found" in either session state; no handler runs (no
\* service is constructed, no outbound call is made) and the initialized flag and
\* the service handle are unchanged.
C2_UnknownMethodNotFound ==
    [][ ( /\ request' # NoRequest
          /\ request'.method \notin {"initialize", "notifications/initialized",
                                     "tools/list", "tools/call"} ) =>
            /\ response'.keys = {"jsonrpc", "id", "error"}
            /\ response'.error.code = -32601
            /\ response'.error.message = "Method not found"
            /\ events' = << >>
            /\ services' = services
            /\ initialized' = initialized
            /\ zoho_service' = zoho_service ]_vars

\* "tools/Call" was refused in an initialized session.
C2_Witness ==
    /\ request.method = "tools/Call"
    /\ initialized
    /\ response.error.code = -32601

\* C3: initialized is false at construction and is true only if the authenticate()
\* call of some earlier initialize request returned True.
C3_InitializedOnlyAfterAuthentication ==
    /\ initialized => history.init_auth_ok
    /\ (services = 0 /\ ~history.init_auth_ok) => ~initialized

\* An initialize request has just flipped the flag.
C3_Witness ==
    /\ request.method = "initialize"
    /\ initialized
    /\ HasResult(response)
    /\ events # << >> /\ events[1].ok

\* Whether the initialize request of this step failed: the service could not be
\* constructed, or its authenticate() returned False.
InitializeFails ==
    /\ request'.method = "initialize"
    /\ validate(settings) # None \/ (events' # << >> /\ ~events'[1].ok)

\* C4: an initialize processed while uninitialized whose service construction or
\* authenticate() fails leaves the session uninitialized and returns an error
\* envelope, code -32603, message "Initialization failed", with the request's id
\* and no result.
C4_FailedInitializeStaysUninitialized ==
    [][ (InitializeFails /\ ~initialized) =>
            /\ ~initialized'
            /\ response'.keys = {"jsonrpc", "id", "error"}
            /\ response'.error.code = -32603
            /\ response'.error.message = "Initialization failed"
            /\ response'.id = request'.id ]_vars

\* authenticate() failed during an initialize with id 7 in an uninitialized session.
C4_Witness ==
    /\ request.method = "initialize"
    /\ request.id = Some(7)
    /\ ~initialized
    /\ events # << >> /\ ~events[1].ok
    /\ response.error.message = "Initialization failed"

\* C5: once initialized is true it is true after every later request.
C5_InitializedIsNeverLeft ==
    [][ initialized => initialized' ]_vars

\* An initialize failed in a session that was, and still is, initialized.
C5_Witness ==
    /\ request.method = "initialize"
    /\ HasError(response)
    /\ initialized

\* C6: every envelope the dispatcher returns has exactly one of result and error.
C6_ExactlyOneOfResultAndError ==
    Answered => (HasResult(response) # HasError(response))

\* C7: every envelope process_mcp_request returns carries the id of its request.
C7_ResponseCarriesRequestId ==
    Answered => (response.id = request.id /\ "id" \in response.keys)

\* The catch-all's envelope answered a request with id 7.
C7_Witness ==
    /\ request.id = Some(7)
    /\ response.error.message = "Internal error"
    /\ response.id = Some(7)

\* C8: tools/list returns, in either session state and however often it is
\* called, the same catalog of the 8 descriptors get_projects .. get_epic, never
\* an error, and changes neither the initialized flag nor the service and its
\* credentials.
C8_ToolsListIsTheStaticCatalog ==
    [][ request'.method = "tools/list" =>
            /\ response'.keys = {"jsonrpc", "id", "result"}
            /\ Len(response'.result.tools) = 8
            /\ [i \in 1..8 |-> response'.result.tools[i].name] =
                 << "get_projects", "get_project", "get_sprints", "get_sprint",
                    "get_items", "get_item", "get_epics", "get_epic" >>
            /\ response'.result.tools = ToolCatalog
            /\ events' = << >>
            /\ initialized' = initialized
            /\ zoho_service' = zoho_service ]_vars

\* The catalog was served to an uninitialized session.
C8_Witness ==
    /\ request.method = "tools/list"
    /\ ~initialized
    /\ Len(response.result.tools) = 8

\* C9: notifications/initialized is acknowledged in either session state with an
\* envelope that has no error and carries the request id, and it changes neither
\* the initialized flag nor the service handle nor the credentials.
C9_NotificationChangesNothing ==
    [][ request'.method = "notifications/initialized" =>
            /\ ~HasError(response')
            /\ response'.id = request'.id
            /\ events' = << >>
            /\ initialized' = initialized
            /\ zoho_service' = zoho_service ]_vars

\* The notification was acknowledged in a session that is still uninitialized.
C9_Witness ==
    /\ request.method = "notifications/initialized"
    /\ request.id = Some(7)
    /\ ~initialized
    /\ response.keys = {"jsonrpc", "id"}

\* The calls the tools/call request in hand selected, when they form a list of dicts.
EntriesAreMappings ==
    /\ SelectToolCalls(request.params).kind = "list"
    /\ \A i \in DOMAIN SelectToolCalls(request.params).items :
           SelectToolCalls(request.params).items[i].mapping

\* The per-call results of a tools/call result envelope, flattened or not.
ResultsOf(env) ==
    IF env.result.kind = "single"
    THEN << [name |-> env.result.name, content |-> env.result.content] >>
    ELSE env.result.calls

\* Whether call i of the request in hand met a tool-level failure: an unknown
\* tool, a missing required argument, an upstream GET that failed, or an empty
\* answer for a single resource.
ToolLevelFailure(i) ==
    LET c == SelectToolCalls(request.params).items[i]
    IN  \/ c.name \notin Range(ToolNames)
        \/ ~(Range(ToolRules[c.name].args) \subseteq c.arguments.truthy)
        \/ \E k \in DOMAIN events :
               /\ events[k].kind = "get" /\ events[k].call = i
               /\ \/ ~events[k].ok
                  \/ ~events[k].truthy /\ ~ToolRules[c.name].collection

\* C10: in an initialized session a tools/call whose entries are dicts gets a
\* result envelope, never an error envelope, and every tool-level failure shows
\* as a content entry whose text starts with "Error: ".
C10_ToolFailuresAreErrorContent ==
    (request.method = "tools/call" /\ initialized /\ EntriesAreMappings) =>
        /\ response.keys = {"jsonrpc", "id", "result"}
        /\ Len(ResultsOf(response)) = Len(SelectToolCalls(request.params).items)
        /\ \A i \in DOMAIN ResultsOf(response) :
               ToolLevelFailure(i) =>
                   ResultsOf(response)[i].content[1].text.starts = "Error: "

\* The envelope half of C10 alone.
C10_ResultEnvelopeForMappings ==
    (request.method = "tools/call" /\ initialized /\ EntriesAreMappings) =>
        response.keys = {"jsonrpc", "id", "result"}

----------------------------------------------------------------------------
(* tools/call in an initialized session: the entries and their results. *)

\* A tools/call was processed by the loop of handle_tools_call.
ToolsCallDone ==
    /\ request.method = "tools/call"
    /\ initialized
    /\ SelectToolCalls(request.params).kind = "list"

Entries == SelectToolCalls(request.params).items

\* inputSchema.required of the catalog's descriptor of a tool
RequiredOf(name) ==
    Range(ToolCatalog[CHOOSE i \in DOMAIN ToolCatalog : ToolCatalog[i].name = name].required)

\* The events of the i-th call of the request
EventsOf(i) == SelectSeq(events, LAMBDA e : e.call = i)

\* Entry i names a catalog tool and its arguments, a dict, lack a required one.
OmitsRequired(i) ==
    /\ Entries[i].mapping
    /\ Entries[i].name \in Range(ToolNames)
    /\ Entries[i].arguments.mapping
    /\ ~(RequiredOf(Entries[i].name) \subseteq Entries[i].arguments.truthy)

\* Entry i names a catalog tool and carries all its required arguments.
CarriesRequired(i) ==
    /\ Entries[i].mapping
    /\ Entries[i].name \in Range(ToolNames)
    /\ Entries[i].arguments.mapping
    /\ RequiredOf(Entries[i].name) \subseteq Entries[i].arguments.truthy

\* The text of the i-th result
TextOf(i) == ResultsOf(response)[i].content[1].text

\* The ways a message can name one, two or three arguments.
ArgumentNames == UNION { RequiredOf(name) : name \in Range(ToolNames) }
ArgumentPhrases ==
    ArgumentNames
    \cup { a \o " and " \o b : a, b \in ArgumentNames }
    \cup { a \o ", " \o b \o ", and " \o c : a, b, c \in ArgumentNames }

\* message is "<arguments> is required" / "<arguments> are required"
IsRequiredForm(message) == \E ph \in ArgumentPhrases : message = ph \o " is required"
AreRequiredForm(message) == \E ph \in ArgumentPhrases : message = ph \o " are required"

C12_NameAloneIsOneImplicitCall ==
    ( /\ request.method = "tools/call"
      /\ initialized
      /\ request.params.has_name
      /\ request.params.toolCalls = Absent
      /\ request.params.calls = Absent
      /\ request.params.tool_calls = Absent ) =>
        /\ HasResult(response)
        /\ response.result.kind = "single"
        /\ response.result.name = request.params.name
        /\ Len(response.result.content) = 1
        /\ \A k \in DOMAIN events : events[k].call = 1
        /\ ( /\ request.params.name = "get_project"
             /\ request.params.has_arguments
             /\ request.params.arguments = Args({}) ) =>
               /\ response.result.content[1].type = "text"
               /\ response.result.content[1].text = ErrorText("project_id is required")
               /\ events = << >>

\* {"name": "get_project", "arguments": {}} was answered in an initialized session.
C12_Witness ==
    /\ request.method = "tools/call"
    /\ initialized
    /\ request.params =
           Params(None, Absent, Absent, Absent, TRUE, "get_project", TRUE, Args({}))
    /\ response.result.kind = "single"
    /\ response.result.content[1].text.of.message = "project_id is required"

\* Entry i fails inside the executor without touching the service: an unknown
\* tool, or a catalog tool that lacks an argument.
FailsLocally(i) ==
    /\ Entries[i].mapping
    /\ \/ Entries[i].name \notin Range(ToolNames)
       \/ OmitsRequired(i)

\* What executing entry i alone, in the state the request found, can give: the
\* result and the outbound calls, whatever their position in the batch.
AloneOutcomes(svc, entry, t) ==
    { [result |-> ToolResult(entry.name, x.result),
       calls |-> [k \in DOMAIN x.events |-> [x.events[k] EXCEPT !.call = 0]]]
      : x \in _execute_zoho_tool(svc, entry.name, entry.arguments, t, 0) }

C14_ShapeFollowsNumberOfCalls ==
    (ToolsCallDone /\ HasResult(response)) =>
        IF Len(Entries) = 1
        THEN /\ response.result.kind = "single"
             /\ response.result.name = Entries[1].name
             /\ Len(response.result.content) = 1
             /\ response.result.calls = << >>
        ELSE /\ response.result.kind = "calls"
             /\ Len(response.result.calls) = Len(Entries)
             /\ \A i \in DOMAIN Entries : response.result.calls[i].name = Entries[i].name
             /\ response.result.name = None
             /\ response.result.content = << >>

\* A request with no call at all was answered with an empty {calls: []}.
C14_Witness ==
    /\ ToolsCallDone
    /\ Entries = << >>
    /\ response.result.kind = "calls"
    /\ response.result.calls = << >>

----------------------------------------------------------------------------
(* ZohoSprintsService on its own: one object, its methods called directly, in   *)
(* any order, as the service tests do.  returned is the method that returned    *)
(* last and events are the outbound calls it made; zoho_service and now in the  *)
(* state before the step are what the method found.                             *)

\* What the token endpoint can answer to a direct authenticate(): the answers
\* above and a lifetime that is negative.
ServiceTokenResponses == TokenResponses \cup { TokenBody("t1", None, TRUE, Some(-1)) }

SvcInit ==
    /\ settings \in { s \in SettingsValues : validate(s) = None }
    /\ now = 0
    /\ initialized = FALSE
    /\ zoho_service = NewService(settings, 1)
    /\ services = 1
    /\ request = NoRequest
    /\ response = NoResponse
    /\ events = << >>
    /\ history = [init_auth_ok |-> FALSE, init_failed |-> FALSE, secret_logged |-> FALSE,
                  internal_error |-> FALSE]
    /\ returned = NoCall

\* await service.authenticate()
SvcAuthenticate ==
    /\ \E r \in ServiceTokenResponses :
           LET a == authenticate(zoho_service, r, now)
           IN  /\ zoho_service' = a.svc
               /\ returned' = Returned("authenticate", a.ok, JNull)
               /\ events' = <<AuthEvent(0, "authenticate", a.ok)>>
    /\ UNCHANGED <<settings, now, initialized, services, request, response, history>>

\* await service._ensure_authenticated()
SvcEnsureAuthenticated ==
    /\ \E e \in _ensure_authenticated(zoho_service, now, 0, "_ensure_authenticated") :
           /\ zoho_service' = e.svc
           /\ returned' = Returned("_ensure_authenticated", e.ok, JNull)
           /\ events' = e.events
    /\ UNCHANGED <<settings, now, initialized, services, request, response, history>>

\* await service.get_projects(), get_project(...), ... get_epic(...)
SvcRead ==
    /\ \E op \in DOMAIN ServiceOps :
           \E x \in ServiceRead(zoho_service, op, now, 0) :
               /\ zoho_service' = x.svc
               /\ returned' = Returned(op, TRUE, x.value)
               /\ events' = x.events
    /\ UNCHANGED <<settings, now, initialized, services, request, response, history>>

\* service._is_token_expired()
SvcIsTokenExpired ==
    /\ returned' = Returned("_is_token_expired", _is_token_expired(zoho_service, now), JNull)
    /\ events' = << >>
    /\ UNCHANGED <<settings, now, initialized, zoho_service, services, request, response,
                   history>>

\* Time passes between two calls.
SvcTick ==
    /\ now < MaxTime
    /\ now' = now + 1
    /\ returned' = NoCall
    /\ events' = << >>
    /\ UNCHANGED <<settings, initialized, zoho_service, services, request, response,
                   history>>

SvcNext ==
    \/ SvcAuthenticate
    \/ SvcEnsureAuthenticated
    \/ SvcRead
    \/ SvcIsTokenExpired
    \/ SvcTick

SpecService == SvcInit /\ [][SvcNext]_vars

Authentications(evs) == SelectSeq(evs, LAMBDA e : e.kind = "authenticate")

\* C15: a read operation that finds the recorded expiry absent or in the past
\* makes exactly one authenticate() call, and makes it before any GET; one
\* that finds the expiry in the future makes none.
C15_TokenFreshness ==
    [][ returned'.op \in DOMAIN ServiceOps =>
            LET expiry == zoho_service.token_expires_at
                past == IF expiry = NoInt THEN TRUE ELSE expiry[1] < now
                future == IF expiry = NoInt THEN FALSE ELSE expiry[1] > now
            IN  /\ past => /\ Len(Authentications(events')) = 1
                           /\ events'[1].kind = "authenticate"
                /\ future => Authentications(events') = << >> ]_vars

\* get_item renewed the token that had expired and then made its GET.
C15_Witness ==
    /\ returned.op = "get_item"
    /\ Len(events) = 2
    /\ events[1].kind = "authenticate"
    /\ events[2].kind = "get"
    /\ zoho_service.refresh_token = "r1"

\* C16: when authenticate() returns False, for whatever reason, access_token,
\* refresh_token and token_expires_at are what they were before the call.
C16_FailedAuthenticateChangesNothing ==
    [][ (returned'.op = "authenticate" /\ ~returned'.ok) =>
            /\ zoho_service'.access_token = zoho_service.access_token
            /\ zoho_service'.refresh_token = zoho_service.refresh_token
            /\ zoho_service'.token_expires_at = zoho_service.token_expires_at ]_vars

\* C17: in every state of a ZohoSprintsService, whatever authenticate() calls
\* were made and whatever the token endpoint answered, an access token that is
\* not None comes with an expiry instant that is not None.
C17_AccessTokenImpliesExpiry ==
    zoho_service.access_token # None => zoho_service.token_expires_at # NoInt

\* C18: when _ensure_authenticated() returns True the access token is not None
\* and its recorded expiry is later than the current instant.
C18_EnsuredTokenIsUsable ==
    (returned.op = "_ensure_authenticated" /\ returned.ok) =>
        /\ zoho_service.access_token # None
        /\ zoho_service.token_expires_at # NoInt
        /\ zoho_service.token_expires_at[1] > now

\* Call i found the token expired and its renewal failed.
RenewalFailed(i) ==
    \E k \in DOMAIN events :
        events[k].call = i /\ events[k].kind = "authenticate" /\ ~events[k].ok

\* Call i found a valid token and its GET failed (transport error, HTTP error
\* status, undecodable body).
UpstreamFailed(i) ==
    /\ \A k \in DOMAIN events : events[k].call = i => events[k].kind = "get"
    /\ \E k \in DOMAIN events : events[k].call = i /\ ~events[k].ok

\* C19: in an initialized session, a call of a catalog tool with all its
\* required arguments whose token renewal fails makes no upstream GET and has
\* a content text "Error: ...", never a payload.
C19_FailedRenewalIsToolError ==
    (ToolsCallDone /\ HasResult(response)) =>
        \A i \in DOMAIN Entries :
            (CarriesRequired(i) /\ RenewalFailed(i)) =>
                /\ \A k \in DOMAIN events : events[k].call = i => events[k].kind # "get"
                /\ TextOf(i).starts = "Error: "
                /\ TextOf(i).of.error

\* The half of C19 that the code keeps: no GET follows a failed renewal.
C19_NoUpstreamCallAfterFailedRenewal ==
    ToolsCallDone =>
        \A i \in DOMAIN Entries :
            RenewalFailed(i) =>
                \A k \in DOMAIN events : events[k].call = i => events[k].kind # "get"

\* C20: in an initialized session, a call of a catalog tool with all its
\* required arguments and a valid token whose upstream GET fails has a content
\* text "Error: ...", never a payload.
C20_UpstreamFailureIsToolError ==
    (ToolsCallDone /\ HasResult(response)) =>
        \A i \in DOMAIN Entries :
            (CarriesRequired(i) /\ UpstreamFailed(i)) =>
                /\ TextOf(i).starts = "Error: "
                /\ TextOf(i).of.error

\* C21: in an initialized session, a call of a catalog tool that carries all its
\* required arguments, finds a valid token and whose upstream read returns a
\* value that is neither null nor empty, answers with the payload
\* {key: value} (and a count for the collection tools), not with "Error: ...";
\* so does get_item called with project_id, sprint_id_or_backlog_id and item_id.
C21_ValidCallYieldsPayload ==
    [][ ( /\ request'.method = "tools/call"
          /\ initialized
          /\ SelectToolCalls(request'.params).kind = "list"
          /\ Len(Entries') = 1
          /\ CarriesRequired(1)'
          /\ ~_is_token_expired(zoho_service, now)
          /\ zoho_service.access_token # None
          /\ \A k \in DOMAIN events' : events'[k].kind = "get" /\ events'[k].truthy ) =>
            /\ HasResult(response')
            /\ TextOf(1)'.starts = "{"
            /\ ~TextOf(1)'.of.error
            /\ TextOf(1)'.of.key = ToolRules[Entries'[1].name].key
            /\ ToolRules[Entries'[1].name].collection <=> TextOf(1)'.of.count >= 0 ]_vars

\* What holds of the seven tools other than get_item: with a valid token and a
\* GET that returned a non-empty value the text is the payload.
C21_PayloadExceptGetItem ==
    [][ ( /\ request'.method = "tools/call"
          /\ initialized
          /\ SelectToolCalls(request'.params).kind = "list"
          /\ Len(Entries') = 1
          /\ CarriesRequired(1)'
          /\ Entries'[1].name # "get_item"
          /\ ~_is_token_expired(zoho_service, now)
          /\ zoho_service.access_token # None
          /\ \A k \in DOMAIN events' : events'[k].kind = "get" /\ events'[k].truthy ) =>
            /\ events' # << >>
            /\ TextOf(1)'.starts = "{"
            /\ TextOf(1)'.of.key = ToolRules[Entries'[1].name].key ]_vars

\* Entry i is a dict whose name is none of the catalog's (or is missing).
NamesUnknownTool(i) == Entries[i].mapping /\ Entries[i].name \notin Range(ToolNames)

\* C22: a call whose name is not one of the 8 catalog names, a missing name
\* included, has the content text "Error: Unknown tool: {name}"; no
\* authenticate() and no upstream GET is made for it, and the credentials the
\* service holds are left as they were.
C22_UnknownToolRejected ==
    [][ ( /\ request'.method = "tools/call"
          /\ initialized
          /\ SelectToolCalls(request'.params).kind = "list" ) =>
            /\ \A i \in DOMAIN Entries' :
                   NamesUnknownTool(i)' =>
                       /\ EventsOf(i)' = << >>
                       /\ HasResult(response') =>
                              /\ ResultsOf(response')[i].name = Entries'[i].name
                              /\ TextOf(i)'.starts = "Error: "
                              /\ TextOf(i)'.of.message =
                                     "Unknown tool: " \o Entries'[i].name
                       /\ \A x \in _execute_zoho_tool(zoho_service, Entries'[i].name,
                                                      Entries'[i].arguments, now, i) :
                              x.svc = zoho_service /\ x.events = << >>
            /\ (\A i \in DOMAIN Entries' : NamesUnknownTool(i)') =>
                   zoho_service' = zoho_service ]_vars

\* A batch of an entry without a name and a call of get_projects was answered.
C22_Witness ==
    /\ ToolsCallDone
    /\ HasResult(response)
    /\ Len(Entries) = 2
    /\ Entries[1].name = None
    /\ Entries[2].name = "get_projects"
    /\ TextOf(1).of.message = "Unknown tool: None"
    /\ events # << >>

\* C23: an exception raised in a handler does not leave process_mcp_request:
\* every request is answered with an envelope, and the one that raised with the
\* error -32603 "Internal error" and the request's id; the initialized flag and
\* the service handle are as before, and requests that follow an internal error
\* are served as usual.
C23_HandlerExceptionsBecomeInternalError ==
    [][ request' # NoRequest =>
            /\ response'.keys # {}
            /\ response'.error.message = "Internal error" =>
                   /\ response'.keys = {"jsonrpc", "id", "error"}
                   /\ response'.jsonrpc = "2.0"
                   /\ response'.error.code = -32603
                   /\ response'.id = request'.id
                   /\ initialized' = initialized
                   /\ zoho_service'.id = zoho_service.id
                   /\ zoho_service'.client_secret = zoho_service.client_secret
            /\ ( /\ request'.method = "tools/call"
                 /\ SelectToolCalls(request'.params).kind = "list"
                 /\ ~EntriesAreMappings'
                 /\ initialized ) => response'.error.message = "Internal error"
            /\ ( /\ request'.method = "tools/call"
                 /\ SelectToolCalls(request'.params).kind # "list"
                 /\ initialized ) =>
                   /\ response'.error.message = "Internal error"
                   /\ zoho_service' = zoho_service
            /\ history.internal_error =>
                   /\ request'.method = "tools/list" => HasResult(response')
                   /\ (request'.method = "tools/call" /\ initialized /\ EntriesAreMappings')
                          => HasResult(response') ]_vars

\* After a request that ended in an internal error a tools/call was answered
\* with a result.
C23_Witness ==
    /\ history.internal_error
    /\ initialized
    /\ request.method = "tools/call"
    /\ HasResult(response)
    /\ events # << >>

\* C24: a successful initialize answers with result.protocolVersion equal to
\* params.protocolVersion when the client sent one, and "2024-11-05" when params
\* or its protocolVersion is absent.
C24_ProtocolVersionEchoedOrDefault ==
    (request.method = "initialize" /\ HasResult(response)) =>
        /\ response.result.kind = "initialize"
        /\ request.params.protocolVersion # None =>
               response.result.protocolVersion = request.params.protocolVersion
        /\ request.params.protocolVersion = None =>
               response.result.protocolVersion = "2024-11-05"

\* An initialize asking for 2025-03-26 succeeded.
C24_Witness ==
    /\ request.method = "initialize"
    /\ HasResult(response)
    /\ request.params.protocolVersion = "2025-03-26"
    /\ response.result.protocolVersion = "2025-03-26"

\* C25: whatever requests came before, repeated initialize requests included, a
\* tools/call of an initialized session is executed on the ZohoSprintsService
\* object that the first initialize constructed.
C25_OneServiceInstancePerProcess ==
    (request.method = "tools/call" /\ initialized) => zoho_service.id = 1

\* What the code keeps: the server refers to one service object at a time, the
\* one constructed last.
C25_HandleIsTheLatestService ==
    zoho_service.id = services

\* C26: requests that race past an expired token each renew it at most once per
\* read operation, and however they are ordered the credentials held are those
\* of the last successful token response: whenever the access token changes,
\* token and expiry are both those of one accepted response; and no GET is sent
\* with a token that is None.  (No handler suspends between its first and its
\* last statement, so the orderings are the sequences of whole operations.)
C26_CredentialsComeFromOneResponse ==
    [][ returned' # NoCall =>
            /\ Len(Authentications(events')) <= 1
            /\ \A k \in DOMAIN events' :
                   events'[k].kind = "get" => events'[k].token # None
            /\ zoho_service'.access_token # zoho_service.access_token =>
                   \E r \in ServiceTokenResponses :
                       /\ authenticate(zoho_service, r, now).ok
                       /\ authenticate(zoho_service, r, now).svc = zoho_service' ]_vars

\* The parts of C26 that hold: at most one authenticate() per operation, and no
\* GET with a token that is None.
C26_OneRenewalAndNoNullToken ==
    [][ returned' # NoCall =>
            /\ Len(Authentications(events')) <= 1
            /\ \A k \in DOMAIN events' :
                   events'[k].kind = "get" => events'[k].token # None ]_vars

\* C27: the client secret goes nowhere but into the token request: no
\* operation writes it to the log, and no envelope carries it.
C27_SecretIsNeverWritten ==
    /\ ~history.secret_logged
    /\ Answered =>
           /\ response.error.data # settings.ZOHO_CLIENT_SECRET
           /\ response.error.message # settings.ZOHO_CLIENT_SECRET

\* What holds: the secret is logged by a successful initialize and by nothing
\* else, and no envelope carries it.
C27_SecretLoggedOnlyByInitialize ==
    /\ history.secret_logged <=> history.init_auth_ok
    /\ Answered =>
           /\ response.error.data # settings.ZOHO_CLIENT_SECRET
           /\ response.error.message # settings.ZOHO_CLIENT_SECRET

\* The envelope carries the marker "2.0", the id of the request, and a result
\* or an error object with an integer code and a message.
WellFormed(env, req) ==
    /\ env.jsonrpc = "2.0"
    /\ "id" \in env.keys /\ env.id = req.id
    /\ \/ HasResult(env) /\ env.result # NoResult
       \/ /\ HasError(env)
          /\ env.error.code \in Int /\ env.error.code # 0
          /\ env.error.message # None

\* C28: every request handed to process_mcp_request, whatever its method, its
\* params, the session state and the answers of the token endpoint and the
\* upstream API, is answered with one well-formed envelope.
C28_EveryRequestGetsWellFormedEnvelope ==
    Answered => WellFormed(response, request)

\* What holds: every request other than notifications/initialized is answered
\* with a well-formed envelope.
C28_WellFormedButNotification ==
    (Answered /\ request.method # "notifications/initialized") =>
        WellFormed(response, request)

\* The request of this step is a tools/call of an initialized session whose
\* entries all carry their required arguments; it finds the token expired and
\* every authenticate() it makes fails.
BatchWhileRenewalFails ==
    /\ request'.method = "tools/call"
    /\ initialized
    /\ SelectToolCalls(request'.params).kind = "list"
    /\ \A i \in DOMAIN Entries' : CarriesRequired(i)'
    /\ _is_token_expired(zoho_service, now)
    /\ \A k \in DOMAIN events' : events'[k].kind = "authenticate" => ~events'[k].ok

\* C29: a batch of n calls with all their required arguments, issued while the
\* token is expired and the token endpoint keeps failing, makes exactly n
\* authenticate() calls, one per call in call order, and no upstream GET; the
\* failure is not remembered, the token stays expired for the next call.
C29_OneRenewalAttemptPerCall ==
    [][ BatchWhileRenewalFails =>
            /\ Len(events') = Len(Entries')
            /\ \A i \in DOMAIN events' :
                   events'[i].kind = "authenticate" /\ events'[i].call = i
            /\ initialized'
            /\ _is_token_expired(zoho_service', now) ]_vars

\* What holds: the same for batches that do not call get_item.
C29_OneRenewalAttemptExceptGetItem ==
    [][ (BatchWhileRenewalFails /\ \A i \in DOMAIN Entries' : Entries'[i].name # "get_item") =>
            /\ Len(events') = Len(Entries')
            /\ \A i \in DOMAIN events' :
                   events'[i].kind = "authenticate" /\ events'[i].call = i
            /\ initialized'
            /\ _is_token_expired(zoho_service', now) ]_vars

\* C30: _is_token_expired() returns True exactly when no expiry is recorded or
\* the current instant is at or after the expiry: True at the instant of the
\* expiry and for a service just constructed, False while the expiry is ahead.
C30_ExpiredIffNoExpiryOrReached ==
    returned.op = "_is_token_expired" =>
        /\ zoho_service.token_expires_at = NoInt => returned.ok
        /\ zoho_service.token_expires_at # NoInt =>
               (returned.ok <=> now >= zoho_service.token_expires_at[1])
        /\ zoho_service = NewService(settings, 1) => returned.ok

\* _is_token_expired() returned True at the very instant of the expiry.
C30_Witness ==
    /\ returned.op = "_is_token_expired"
    /\ returned.ok
    /\ zoho_service.token_expires_at = Some(now)
    /\ zoho_service.access_token # None

\* The lifetime a token response grants: its expires_in, 3600 when it has none.
LifetimeOf(r) == IF r.expires_in = NoInt THEN 3600 ELSE r.expires_in[1]

\* C31: an authenticate() that returns True has stored the access token and the
\* refresh token of the response and set the expiry to the instant of the call
\* plus the response's expires_in, 3600 when the response has none; whatever
\* token and expiry were held before are overwritten.
C31_SuccessfulAuthenticateStoresResponse ==
    [][ (returned'.op = "authenticate" /\ returned'.ok) =>
            \E r \in ServiceTokenResponses :
                /\ r.status = "ok" /\ r.body = "object" /\ r.expires_is_number
                /\ zoho_service'.access_token = r.access_token
                /\ zoho_service'.refresh_token = r.refresh_token
                /\ zoho_service'.token_expires_at = Some(now + LifetimeOf(r))
                /\ zoho_service'.id = zoho_service.id
                /\ zoho_service'.client_id = zoho_service.client_id
                /\ zoho_service'.client_secret = zoho_service.client_secret ]_vars

\* A response without refresh_token and expires_in replaced a token that came
\* with a refresh token: the refresh token is gone, the expiry an hour ahead.
C31_Witness ==
    /\ returned.op = "authenticate"
    /\ returned.ok
    /\ now = 1
    /\ zoho_service.access_token = "t2"
    /\ zoho_service.refresh_token = None
    /\ zoho_service.token_expires_at = Some(3601)

\* C32: no upstream GET is sent without a token: _get_headers() raises when the
\* access token is None, so every GET a service method makes carries the access
\* token the service holds, and that token is not None.
C32_NoUpstreamCallWithoutToken ==
    /\ \A k \in DOMAIN events :
           events[k].kind = "get" =>
               /\ events[k].token # None
               /\ events[k].token = zoho_service.access_token
    /\ (returned.op \in DOMAIN ServiceOps /\ zoho_service.access_token = None) =>
           /\ \A k \in DOMAIN events : events[k].kind # "get"
           /\ returned.value = ServiceOps[returned.op].failed
              \/ returned.value = ServiceOps[returned.op].unauth

\* get_project ran on a service whose token is None with an expiry still ahead:
\* no renewal, no GET, the value of the except clause.
C32_Witness ==
    /\ returned.op = "get_project"
    /\ zoho_service.access_token = None
    /\ zoho_service.token_expires_at # NoInt
    /\ events = << >>
    /\ returned.value = JNull

CollectionReads == { "get_projects", "get_sprints", "get_items", "get_epics" }

\* The read operation that returned last could not be authenticated, was
\* stopped by _get_headers, or had its GET fail.
ReadFailed ==
    \/ \E k \in DOMAIN events : ~events[k].ok
    \/ \A k \in DOMAIN events : events[k].kind # "get"

\* C33: get_projects, get_sprints, get_items and get_epics return an empty
\* list, not None, when authentication cannot be ensured or the upstream call
\* fails.
C33_CollectionReadsFailToEmptyList ==
    (returned.op \in CollectionReads /\ ReadFailed) => returned.value = JEmptyList

\* What holds: so do get_projects, get_items and get_epics, and get_sprints
\* when it cannot be authenticated.
C33_EmptyListExceptGetSprints ==
    (returned.op \in CollectionReads /\ ReadFailed) =>
        \/ returned.value = JEmptyList
        \/ /\ returned.op = "get_sprints"
           /\ returned.value = JNull
           /\ \A k \in DOMAIN events : events[k].kind = "authenticate" => events[k].ok

\* C34: an initialize that fails in an initialized session leaves the
\* credentials in use as they were: the access token and the expiry the next
\* tools/call finds are the ones held before, and a token that was valid needs
\* no renewal.
C34_FailedInitializeKeepsCredentials ==
    [][ (InitializeFails /\ initialized) =>
            /\ zoho_service'.access_token = zoho_service.access_token
            /\ zoho_service'.token_expires_at = zoho_service.token_expires_at
            /\ _is_token_expired(zoho_service', now) = _is_token_expired(zoho_service, now)
      ]_vars

\* What holds: the session stays initialized, on a new service object whose
\* token is expired.
C34_FailedInitializeReplacesService ==
    [][ (InitializeFails /\ initialized) =>
            /\ initialized'
            /\ zoho_service'.id = services'
            /\ zoho_service'.id # zoho_service.id
            /\ _is_token_expired(zoho_service', now) ]_vars

\* The position of the first entry that is no dict.
FirstNonMapping(items) ==
    CHOOSE i \in DOMAIN items : ~items[i].mapping /\ \A j \in 1..(i - 1) : items[j].mapping

\* C35: a batch of an initialized session that holds an entry that is no dict
\* is answered with one error envelope, code -32603, and no per-call results;
\* the entries before that entry were executed all the same: their
\* authenticate() and GET calls were made and the credentials are what they left.
C35_NonMappingEntryAbortsAfterPrefix ==
    [][ ( /\ request'.method = "tools/call"
          /\ initialized
          /\ SelectToolCalls(request'.params).kind = "list"
          /\ ~EntriesAreMappings' ) =>
            /\ response'.keys = {"jsonrpc", "id", "error"}
            /\ response'.error.code = -32603
            /\ response'.error.message = "Internal error"
            /\ response'.id = request'.id
            /\ response'.result = NoResult
            /\ \E run \in RunToolCalls(zoho_service,
                                       SubSeq(Entries', 1, FirstNonMapping(Entries') - 1),
                                       1, now) :
                   /\ run.raised = None
                   /\ events' = run.events
                   /\ zoho_service' = run.svc
            /\ \A k \in DOMAIN events' : events'[k].call < FirstNonMapping(Entries') ]_vars

\* get_projects made its GET, then the entry after it, no dict, ended the
\* request with an internal error.
C35_Witness ==
    /\ ToolsCallDone
    /\ Len(Entries) = 2
    /\ Entries[1].name = "get_projects"
    /\ ~Entries[2].mapping
    /\ response.error.message = "Internal error"
    /\ \E k \in DOMAIN events : events[k].kind = "get" /\ events[k].call = 1

\* The value under the first batch key that params carry, in the order
\* toolCalls, calls, tool_calls; Absent when they carry none.
Chosen(params) ==
    CASE params.toolCalls # Absent -> params.toolCalls
      [] params.calls # Absent -> params.calls
      [] params.tool_calls # Absent -> params.tool_calls
      [] OTHER -> Absent

NamesOf(seq) == [i \in DOMAIN seq |-> seq[i].name]

\* params were executed as one implicit call: one result under params' name.
ImplicitCallDone ==
    /\ HasResult(response)
    /\ response.result.kind = "single"
    /\ response.result.name = request.params.name
    /\ \A k \in DOMAIN events : events[k].call = 1

\* No call was executed: an empty {calls: []} and no outbound call.
NoCallDone ==
    /\ HasResult(response)
    /\ response.result.kind = "calls"
    /\ response.result.calls = << >>
    /\ events = << >>

\* What C36 says of a chosen value that is a list.
ChosenListRules ==
    LET chosen == Chosen(request.params)
    IN  /\ (chosen.kind = "list" /\ chosen.items # << >>) =>
               /\ HasResult(response) =>
                      NamesOf(ResultsOf(response)) = NamesOf(chosen.items)
               /\ \A k \in DOMAIN events : events[k].call \in DOMAIN chosen.items
        /\ (chosen = Absent \/ chosen = BatchList(<< >>)) =>
               IF request.params.has_name THEN ImplicitCallDone ELSE NoCallDone

====
